---- MODULE Spec2Model ----
(***************************************************************************)
(* A model of RoomClient (src/src/room-client.ts): the controller that     *)
(* keeps one Automerge document usable offline and reconciles it with the  *)
(* room's server state.  Documents are sets of changes authored under an   *)
(* actor id; the offline store, the authorization call, the transport and  *)
(* the manymerge Peer are the environment.  Every await in the source is   *)
(* a suspension point: the steps between two awaits are one action.        *)
(***************************************************************************)
EXTENDS Naturals, Sequences, FiniteSets

\* ------------------------------------------------------------------ bounds
MaxCalls == 4       \* calls of the caller and events of the transport in a run

\* ------------------------------------------------------------------ values
Actor == "A"                     \* what Offline.getOrCreateActor() resolves to
NoActor == "none"
NoRoom == "none"
ServerRoom == "r1"               \* room.id returned by authorize()
EnvelopeRooms == {"r1", "r2"}    \* meta.roomId of inbound packets

InitChange == <<"state", 0>>     \* the change that holds the constructor's state
OldChange == <<"old", 0>>        \* a change saved by an earlier run of the client
ServerChange == <<"srv", 0>>     \* a change only the server's snapshot holds
RemoteChange == <<"rem", 0>>     \* a change carried by an inbound message
PubChange(n) == <<"pub", n>>     \* the change made by the n-th publishDoc

\* A document: the actor it is authored under and the changes it contains.
\* NoDoc is the undefined _doc; PlainEmpty is the literal {} of line 186.
NoDoc == [actor |-> "undefined", changes |-> {}]
PlainEmpty == [actor |-> "plain", changes |-> {}]

\* Serialized bytes: a snapshot keeps the changes and not the actor id.
NoData == [present |-> FALSE, ok |-> TRUE, changes |-> {}]
Bytes(cs) == [present |-> TRUE, ok |-> TRUE, changes |-> cs]
Corrupt == [present |-> TRUE, ok |-> FALSE, changes |-> {}]

\* ------------------------------------------------- the Automerge primitives
\* Automerge.from(state || {}, {actorId})
From(hasState, a) == [actor |-> a, changes |-> IF hasState THEN {InitChange} ELSE {}]

\* save(doc)
Save(d) == Bytes(d.changes)

\* load(data, {actorId}); Automerge.load(room.state) draws an anonymous actor
Load(data, a) == [actor |-> a, changes |-> data.changes]

\* merge(local, remote): local's actor, both histories
Merge(l, r) == [actor |-> l.actor, changes |-> l.changes \cup r.changes]

\* merge throws when local is undefined or both documents share an actor
MergeFails(l, r) == l = NoDoc \/ l.actor = r.actor

\* Automerge.change(doc, callback): NoDoc stands for the falsy result that
\* publishDoc tests for, returned when there is no document to change
Change(d, c) == IF d = NoDoc THEN NoDoc ELSE [d EXCEPT !.changes = @ \cup {c}]

\* ------------------------------------------------------------------- state
VARIABLES
    actorId,      \* _actorId: NoActor until Offline.getOrCreateActor() resolved
    doc,          \* _doc: the current document, NoDoc while undefined
    roomId,       \* _roomId
    socket,       \* _socket: 0 while undefined, else the session it refers to
    sessions,     \* every session opened so far: is it open, what is attached
    nSessions,    \* how many sessions Sockets.newSocket has created
    cbUpdate,     \* _onUpdateSocketCallback is set
    cbConnect,    \* _onConnectSocketCallback is set
    cbDisconnect, \* _onDisconnectSocketCallback is set
    nRegs,        \* onUpdateDoc calls that returned without throwing
    store,        \* Offline: the snapshot kept for (_reference, "default")
    pending,      \* the debounced _saveOffline: its last argument, NoDoc if idle
    reqs,         \* calls the current or last debounce window took: 0, 1, 2 = several
    pubCount,     \* publishDoc calls that produced a change
    ctorState,    \* the constructor was given parameters.state
    calls,        \* calls and transport events so far
    ctorPc,       \* the constructor's readActorIdThenCreateDoc: "actor" | "done"
    opKind,       \* the caller's async call in flight: "none" | "restore" | "init"
    opPc,         \* where it is suspended
    opData,       \* the bytes its Offline.getDoc resolved to
    opState,      \* init(): the deserialized room.state
    opPubs,       \* pubCount when that call was made (a history variable)
    bgPc,         \* the connect handler's un-awaited syncOfflineCache
    bgData,       \* the bytes its Offline.getDoc resolved to
    hPc,          \* an update handler suspended at line 231: "idle" | "actor"
    ev            \* what the last step did (a history variable)

vars == <<actorId, doc, roomId, socket, sessions, nSessions, cbUpdate, cbConnect,
          cbDisconnect, nRegs, store, pending, reqs, pubCount, ctorState, calls,
          ctorPc, opKind, opPc, opData, opState, opPubs, bgPc, bgData, hPc, ev>>

ctlVars == <<actorId, roomId, socket, sessions, nSessions, cbUpdate, cbConnect,
             cbDisconnect, nRegs>>
opVars == <<opKind, opPc, opData, opState, opPubs>>
bgVars == <<bgPc, bgData>>

\* The record of a step: the operation, whether it threw, the document it
\* returned (NoDoc if none), whether it emitted to the transport, and the
\* document the user's update callback was invoked with (NoDoc if not invoked);
\* for an update handler also the packet it was handed; and which of the
\* user's callbacks the step invoked ("none", "update", "connect", "disconnect").
NoPacket == [roomId |-> "none", msg |-> "none"]
Ev(op, threw, out, emitted, cb) ==
    [op |-> op, threw |-> threw, out |-> out, emitted |-> emitted, cb |-> cb,
     arg |-> NoPacket, user |-> IF cb = NoDoc THEN "none" ELSE "update"]

NoSession == [open |-> FALSE, handlers |-> <<>>]

Init ==
    /\ actorId = NoActor
    /\ doc = NoDoc
    /\ roomId = NoRoom
    /\ socket = 0
    /\ sessions = [i \in 1..MaxCalls |-> NoSession]
    /\ nSessions = 0
    /\ cbUpdate = FALSE
    /\ cbConnect = FALSE
    /\ cbDisconnect = FALSE
    /\ nRegs = 0
    /\ store \in {NoData, Bytes({OldChange})}
    /\ pending = NoDoc
    /\ reqs = 0
    /\ pubCount = 0
    /\ ctorState \in BOOLEAN
    /\ calls = 0
    /\ ctorPc = "actor"
    /\ opKind = "none"
    /\ opPc = "idle"
    /\ opData = NoData
    /\ opState = NoDoc
    /\ opPubs = 0
    /\ bgPc = "idle"
    /\ bgData = NoData
    /\ hPc = "idle"
    /\ ev = Ev("construct", FALSE, NoDoc, FALSE, NoDoc)

\* ------------------------------------------------------- _sendMsgToSocket
\* The Peer calls _sendMsgToSocket on every notify.  It returns at once when
\* offline, fails its invariant when the room identity is missing, and emits
\* otherwise.
SendEmits_Always(sock, room) == TRUE
SendEmits(sock, room) == sock # 0 /\ room # NoRoom
SendThrows(sock, room) == sock # 0 /\ room = NoRoom

\* _saveOffline = debounce(saveOffline, 120), line 58: a call replaces the
\* arguments the pending invocation will use and restarts the timer
Debounce_FirstWins(slot, d) == IF slot = NoDoc THEN d ELSE slot
Debounce(slot, d) == d

\* How many calls the window has taken once one more arrives
Absorbed(slot) == IF slot = NoDoc THEN 1 ELSE 2

\* createDoc(actorId, state): the existing document if there is one
CreateDoc(cur, a, hasState) == IF cur # NoDoc THEN cur ELSE From(hasState, a)

\* syncOfflineCache(): what it returns and leaves in _doc, given the bytes
\* Offline.getDoc resolved to and the document current when it resumes
SyncResult_FreshWhenEmpty(data, cur) ==
    IF data.present THEN Load(data, Actor) ELSE From(FALSE, Actor)
SyncResult(data, cur) == IF data.present THEN Load(data, Actor) ELSE cur

\* init(), lines 179-189: the document adopted and the document returned,
\* given the offline-cache result and the deserialized server state
InitAdopted_ServerWins(local, state) == state
InitAdopted(local, state) == IF MergeFails(local, state) THEN local ELSE Merge(local, state)
InitReturned(local, state) ==
    IF MergeFails(local, state) \/ SendThrows(socket, roomId)
    THEN PlainEmpty ELSE Merge(local, state)

\* init(), lines 119-121: what the failed-authorization path returns, given
\* the document current before the offline-cache sync resumed and the one
\* the sync left in _doc, which is the one line 120 reads
InitFailReturned_Stale(before, synced) == before
InitFailReturned(before, synced) == synced

\* The handlers init() attaches to a new session, in order (lines 138-170)
InitHandlers_PendingFirst ==
    (IF cbUpdate THEN <<"update">> ELSE <<>>)
        \o (IF cbConnect THEN <<"userConnect">> ELSE <<>>)
        \o (IF cbDisconnect THEN <<"userDisconnect">> ELSE <<>>)
        \o <<"error", "connect", "disconnect">>
InitHandlers ==
    <<"error", "connect", "disconnect">>
        \o (IF cbUpdate THEN <<"update">> ELSE <<>>)
        \o (IF cbConnect THEN <<"userConnect">> ELSE <<>>)
        \o (IF cbDisconnect THEN <<"userDisconnect">> ELSE <<>>)

\* ------------------------------------------------------------ construction
\* readActorIdThenCreateDoc resumes (lines 62-64) for the constructor, for
\* restore()/init() (lines 89-91, 108-110) or for a suspended update handler
\* (lines 230-232), followed by what its caller does up to its next await.
\* callback(this._doc), line 250: what the user's callback is handed, given
\* the document before the message and the one applyMessage returned
CallbackArg_Stale(before, newDoc) == IF newDoc = NoDoc THEN NoDoc ELSE before
CallbackArg(before, newDoc) == newDoc

HandlerApply_AdoptsRejected(kind, cur) ==
    IF cur # NoDoc THEN [cur EXCEPT !.changes = @ \cup {RemoteChange}] ELSE NoDoc
HandlerApply(kind, cur) ==
    IF kind = "ok" /\ cur # NoDoc
    THEN [cur EXCEPT !.changes = @ \cup {RemoteChange}]
    ELSE NoDoc

\* Does the Peer answer an applied message with changes of ours it lacks
PeerReplies(d) == d.changes \ {RemoteChange} # {}

ReadActorIdResolved(who) ==
    LET created == CreateDoc(doc, Actor, who = "ctor" /\ ctorState)
        emitted == doc = NoDoc /\ SendEmits(socket, roomId)
    IN
    /\ actorId' = Actor
    /\ UNCHANGED <<roomId, socket, sessions, nSessions, cbUpdate, cbConnect,
                   cbDisconnect, nRegs, store, pubCount, ctorState, calls, opData,
                   opState, opPubs, bgVars>>
    /\ CASE who = "ctor" ->
              /\ ctorPc = "actor"
              /\ ctorPc' = "done"
              /\ doc' = created
              /\ ev' = Ev("construct", FALSE, NoDoc, emitted, NoDoc)
              /\ UNCHANGED <<opKind, opPc, hPc, pending, reqs>>
         [] who = "op" ->
              /\ opPc = "actor"
              /\ opPc' = IF opKind = "restore" THEN "getDoc" ELSE "auth"
              /\ doc' = created
              /\ ev' = Ev("await", FALSE, NoDoc, emitted, NoDoc)
              /\ UNCHANGED <<opKind, ctorPc, hPc, pending, reqs>>
         [] who = "handler" ->
              LET kind == IF hPc = "actorOk" THEN "ok" ELSE "corrupt"
                  newDoc == HandlerApply(kind, created)
              IN
              /\ hPc \in {"actorOk", "actorCorrupt"}
              /\ hPc' = "idle"
              /\ doc' = IF newDoc = NoDoc THEN created ELSE newDoc
              /\ pending' = IF newDoc = NoDoc THEN pending ELSE Debounce(pending, newDoc)
              /\ reqs' = IF newDoc = NoDoc THEN reqs ELSE Absorbed(pending)
              /\ ev' = [Ev("update", newDoc = NoDoc, NoDoc,
                           emitted \/ (newDoc # NoDoc /\ PeerReplies(newDoc)
                                         /\ SendEmits(socket, roomId)),
                           CallbackArg(created, newDoc))
                        EXCEPT !.arg = [roomId |-> roomId, msg |-> kind]]
              /\ UNCHANGED <<opKind, opPc, ctorPc>>

\* ------------------------------------------------------------- publishDoc
\* publishDoc(callback), lines 327-345.  The document that becomes current:
\* the changed one, or the recreated one when change() returned nothing.
PublishDoc_NoRecreate(cur, a, c) == Change(cur, c)
PublishDoc(cur, a, c) ==
    IF Change(cur, c) = NoDoc THEN CreateDoc(cur, a, FALSE) ELSE Change(cur, c)

\* The invariant of line 331 fails
PublishThrows(cur, a, c) == Change(cur, c) = NoDoc /\ a = NoActor

Publish ==
    LET c == PubChange(pubCount + 1)
        newDoc == PublishDoc(doc, actorId, c)
    IN
    /\ IF PublishThrows(doc, actorId, c)
       THEN /\ ev' = Ev("publish", TRUE, NoDoc, FALSE, NoDoc)
            /\ UNCHANGED <<doc, pending, reqs, pubCount>>
       ELSE /\ doc' = newDoc
            /\ pending' = Debounce(pending, newDoc)
            /\ reqs' = Absorbed(pending)
            /\ pubCount' = IF Change(doc, c) = NoDoc THEN pubCount ELSE pubCount + 1
            /\ ev' = Ev("publish", SendThrows(socket, roomId),
                        IF SendThrows(socket, roomId) THEN NoDoc ELSE newDoc,
                        SendEmits(socket, roomId), NoDoc)
    /\ calls < MaxCalls
    /\ calls' = calls + 1
    /\ UNCHANGED <<ctlVars, store, ctorState, ctorPc, opVars, bgVars, hPc>>

\* ------------------------------------------------- debounced _saveOffline
\* The debounce timer fires 120 ms after the last call (lines 55-58): the
\* last document handed to _saveOffline is serialized into the store.
SaveTimerFires ==
    /\ pending # NoDoc
    /\ store' = Save(pending)
    /\ pending' = NoDoc
    /\ ev' = Ev("save", FALSE, NoDoc, FALSE, NoDoc)
    /\ UNCHANGED reqs
    /\ UNCHANGED <<ctlVars, doc, pubCount, ctorState, calls, ctorPc, opVars, bgVars, hPc>>

\* --------------------------------------------------------------- restore()
\* restore(), lines 88-93, up to its first await
RestoreCall ==
    /\ opKind = "none"
    /\ opKind' = "restore"
    /\ opPubs' = pubCount
    /\ opPc' = IF doc = NoDoc THEN "actor" ELSE "getDoc"
    /\ ev' = Ev("await", FALSE, NoDoc, FALSE, NoDoc)
    /\ calls < MaxCalls
    /\ calls' = calls + 1
    /\ UNCHANGED <<ctlVars, doc, store, pending, reqs, pubCount, ctorState, ctorPc,
                   opData, opState, bgVars, hPc>>

\* ------------------------------------------------------------------ init()
\* init(), lines 103-110, up to its first await
InitCall ==
    /\ opKind = "none"
    /\ opKind' = "init"
    /\ opPubs' = pubCount
    /\ opPc' = IF doc = NoDoc THEN "actor" ELSE "auth"
    /\ ev' = Ev("await", FALSE, NoDoc, FALSE, NoDoc)
    /\ calls < MaxCalls
    /\ calls' = calls + 1
    /\ UNCHANGED <<ctlVars, doc, store, pending, reqs, pubCount, ctorState, ctorPc,
                   opData, opState, bgVars, hPc>>

\* authorize() rejects: lines 116-118, up to the await of Offline.getDoc
AuthFails ==
    /\ opKind = "init" /\ opPc = "auth"
    /\ opKind' = "initFail"
    /\ opPc' = "getDoc"
    /\ ev' = Ev("await", FALSE, NoDoc, FALSE, NoDoc)
    /\ UNCHANGED <<ctlVars, doc, store, pending, reqs, pubCount, ctorState, calls, ctorPc,
                   opData, opState, opPubs, bgVars, hPc>>

\* this._roomId = room.id, line 124
RecordedRoom_Dropped(id) == NoRoom
RecordedRoom(id) == id

\* authorize() resolves with room.state = srv: lines 124-178, up to the
\* await of Offline.getDoc, or to the return when Automerge.load throws
AuthSucceeds(srv) ==
    /\ opKind = "init" /\ opPc = "auth"
    /\ roomId' = RecordedRoom(ServerRoom)
    /\ nSessions' = nSessions + 1
    /\ socket' = nSessions + 1
    /\ sessions' = [sessions EXCEPT ![nSessions + 1] =
                        [open |-> TRUE, handlers |-> InitHandlers]]
    /\ IF srv.ok
       THEN /\ opState' = Load(srv, "anon")
            /\ opPc' = "getDoc"
            /\ opKind' = opKind
            /\ ev' = Ev("await", FALSE, NoDoc, FALSE, NoDoc)
       ELSE /\ opState' = NoDoc
            /\ opPc' = "idle"
            /\ opKind' = "none"
            /\ ev' = Ev("init", FALSE, PlainEmpty, FALSE, NoDoc)
    /\ UNCHANGED <<actorId, cbUpdate, cbConnect, cbDisconnect, nRegs, doc, store,
                   pending, reqs, pubCount, ctorState, calls, ctorPc, opData, opPubs, bgVars,
                   hPc>>

\* syncOfflineCache() has returned `local` to restore() or init(), having
\* emitted or not: what the caller does with it up to its return
OpReturns(local, emitted) ==
    /\ opKind' = "none"
    /\ opPc' = "idle"
    /\ opData' = NoData
    /\ opState' = NoDoc
    /\ UNCHANGED opPubs
    /\ CASE opKind = "restore" ->
              /\ doc' = local
              /\ ev' = Ev("restore", FALSE, local, emitted, NoDoc)
         [] opKind = "initFail" ->
              /\ doc' = local
              /\ ev' = Ev("initFail", FALSE, InitFailReturned(doc, local),
                          emitted, NoDoc)
         [] opKind = "init" ->
              /\ doc' = InitAdopted(local, opState)
              /\ ev' = Ev("init", FALSE, InitReturned(local, opState),
                          emitted \/ (~MergeFails(local, opState)
                                        /\ SendEmits(socket, roomId)),
                          NoDoc)

\* Offline.getDoc resolves for the caller's syncOfflineCache (lines 283-290)
OpGetDocResolved ==
    /\ opPc = "getDoc"
    /\ IF store.present
       THEN /\ opPc' = "load"
            /\ opData' = store
            /\ ev' = Ev("await", FALSE, NoDoc, FALSE, NoDoc)
            /\ UNCHANGED <<doc, opKind, opState, opPubs>>
       ELSE OpReturns(SyncResult(store, doc), FALSE)
    /\ UNCHANGED <<ctlVars, store, pending, reqs, pubCount, ctorState, calls, ctorPc, bgVars, hPc>>

\* Offline.getOrCreateActor resolves for it (lines 289-296)
OpLoadResolved ==
    /\ opPc = "load"
    /\ OpReturns(SyncResult(opData, doc), SendEmits(socket, roomId))
    /\ UNCHANGED <<ctlVars, store, pending, reqs, pubCount, ctorState, calls, ctorPc, bgVars, hPc>>

\* ------------------------------------------------------------- disconnect()
\* disconnect(), lines 195-200; Closed is Sockets.disconnect on the session held
Closed_Leaks(ss, sock) == ss
Closed(ss, sock) == IF sock # 0 THEN [ss EXCEPT ![sock].open = FALSE] ELSE ss

Disconnect ==
    /\ sessions' = Closed(sessions, socket)
    /\ socket' = 0
    /\ ev' = Ev("disconnect", FALSE, NoDoc, FALSE, NoDoc)
    /\ calls < MaxCalls
    /\ calls' = calls + 1
    /\ UNCHANGED <<actorId, roomId, nSessions, cbUpdate, cbConnect, cbDisconnect,
                   nRegs, doc, store, pending, reqs, pubCount, ctorState, ctorPc,
                   opVars, bgVars, hPc>>

\* ------------------------------------------------- callback registration
\* onUpdateDoc(callback), lines 202-206: the invariant that rejects the call
OnUpdateThrows(slot, sock) == slot

\* onUpdateDoc(callback), lines 202-260 (the handler it builds is UpdateEvent)
OnUpdateDoc ==
    /\ IF OnUpdateThrows(cbUpdate, socket)
       THEN /\ ev' = Ev("onUpdateDoc", TRUE, NoDoc, FALSE, NoDoc)
            /\ UNCHANGED <<cbUpdate, sessions, nRegs>>
       ELSE /\ ev' = Ev("onUpdateDoc", FALSE, NoDoc, FALSE, NoDoc)
            /\ nRegs' = nRegs + 1
            /\ IF socket = 0
               THEN /\ cbUpdate' = TRUE
                    /\ UNCHANGED sessions
               ELSE /\ sessions' = [sessions EXCEPT ![socket].handlers =
                                        Append(@, "update")]
                    /\ UNCHANGED cbUpdate
    /\ calls < MaxCalls
    /\ calls' = calls + 1
    /\ UNCHANGED <<actorId, roomId, socket, nSessions, cbConnect, cbDisconnect,
                   doc, store, pending, reqs, pubCount, ctorState, ctorPc, opVars,
                   bgVars, hPc>>

\* onConnect(callback), lines 262-270
OnConnect ==
    /\ IF socket = 0
       THEN /\ cbConnect' = TRUE
            /\ UNCHANGED sessions
       ELSE /\ sessions' = [sessions EXCEPT ![socket].handlers =
                                Append(@, "userConnect")]
            /\ UNCHANGED cbConnect
    /\ ev' = Ev("onConnect", FALSE, NoDoc, FALSE, NoDoc)
    /\ calls < MaxCalls
    /\ calls' = calls + 1
    /\ UNCHANGED <<actorId, roomId, socket, nSessions, cbUpdate, cbDisconnect,
                   nRegs, doc, store, pending, reqs, pubCount, ctorState, ctorPc,
                   opVars, bgVars, hPc>>

\* onDisconnect(callback), lines 272-280
OnDisconnect ==
    /\ IF socket = 0
       THEN /\ cbDisconnect' = TRUE
            /\ UNCHANGED sessions
       ELSE /\ sessions' = [sessions EXCEPT ![socket].handlers =
                                Append(@, "userDisconnect")]
            /\ UNCHANGED cbDisconnect
    /\ ev' = Ev("onDisconnect", FALSE, NoDoc, FALSE, NoDoc)
    /\ calls < MaxCalls
    /\ calls' = calls + 1
    /\ UNCHANGED <<actorId, roomId, socket, nSessions, cbUpdate, cbConnect,
                   nRegs, doc, store, pending, reqs, pubCount, ctorState, ctorPc,
                   opVars, bgVars, hPc>>

\* --------------------------------------------------------- transport events
Attached(s, name) ==
    /\ sessions[s].open
    /\ \E k \in 1..Len(sessions[s].handlers) : sessions[s].handlers[k] = name

Packets == [roomId : EnvelopeRooms, msg : {"none", "corrupt", "ok"}]

\* The update handler of lines 208-251: its checks before it touches the
\* document.  "discard" returns silently, "throw" fails, "apply" goes on.
UpdateVerdict_NoRoomFilter(pkt, room) ==
    IF room = NoRoom THEN "throw"
    ELSE IF pkt.msg = "none" THEN "throw"
    ELSE "apply"
UpdateVerdict_MissingMsgIgnored(pkt, room) ==
    IF room = NoRoom THEN "throw"
    ELSE IF pkt.roomId # room THEN "discard"
    ELSE IF pkt.msg = "none" THEN "discard"
    ELSE "apply"
UpdateVerdict(pkt, room) ==
    IF room = NoRoom THEN "throw"
    ELSE IF pkt.roomId # room THEN "discard"
    ELSE IF pkt.msg = "none" THEN "throw"
    ELSE "apply"

\* A "sync_room_state" event reaches an update handler attached to session s
UpdateEvent(s, pkt) ==
    LET verdict == UpdateVerdict(pkt, roomId)
        newDoc == HandlerApply(pkt.msg, doc)
    IN
    /\ Attached(s, "update")
    /\ hPc = "idle"
    /\ IF verdict # "apply"
       THEN /\ ev' = [Ev("update", verdict = "throw", NoDoc, FALSE, NoDoc)
                      EXCEPT !.arg = pkt]
            /\ UNCHANGED <<doc, pending, reqs, hPc>>
       ELSE IF doc = NoDoc
       THEN /\ hPc' = IF pkt.msg = "ok" THEN "actorOk" ELSE "actorCorrupt"
            /\ ev' = Ev("await", FALSE, NoDoc, FALSE, NoDoc)
            /\ UNCHANGED <<doc, pending, reqs>>
       ELSE /\ doc' = IF newDoc = NoDoc THEN doc ELSE newDoc
            /\ pending' = IF newDoc = NoDoc THEN pending ELSE Debounce(pending, newDoc)
            /\ reqs' = IF newDoc = NoDoc THEN reqs ELSE Absorbed(pending)
            /\ ev' = [Ev("update", newDoc = NoDoc, NoDoc,
                         newDoc # NoDoc /\ PeerReplies(newDoc)
                             /\ SendEmits(socket, roomId),
                         CallbackArg(doc, newDoc))
                      EXCEPT !.arg = pkt]
            /\ UNCHANGED hPc
    /\ calls < MaxCalls
    /\ calls' = calls + 1
    /\ UNCHANGED <<ctlVars, store, pubCount, ctorState, ctorPc, opVars, bgVars>>

\* A "connect" event on session s: the handler of lines 144-147 notifies the
\* Peer and starts syncOfflineCache without awaiting it; the user's connect
\* callback runs after it when attached to s.  One such sync is in
\* flight at a time.  Peer.notify of an undefined document may throw.
ConnectEvent(s) ==
    /\ Attached(s, "connect")
    /\ bgPc = "idle"
    /\ \E throws \in (IF doc = NoDoc THEN BOOLEAN ELSE {FALSE}) :
         /\ bgPc' = IF throws THEN "idle" ELSE "getDoc"
         /\ ev' = [Ev("connect", throws, NoDoc, ~throws /\ SendEmits(socket, roomId),
                      NoDoc)
                   EXCEPT !.user = IF ~throws /\ Attached(s, "userConnect")
                                   THEN "connect" ELSE "none"]
    /\ calls < MaxCalls
    /\ calls' = calls + 1
    /\ UNCHANGED <<ctlVars, doc, store, pending, reqs, pubCount, ctorState, ctorPc,
                   opVars, bgData, hPc>>

\* A "disconnect" or "error" event on session s: lines 138-141, 150-156 log;
\* the user's disconnect callback runs when attached to s
TransportEvent(s, name) ==
    /\ Attached(s, name)
    /\ ev' = [Ev(name \o "Event", FALSE, NoDoc, FALSE, NoDoc)
              EXCEPT !.user = IF name = "disconnect" /\ Attached(s, "userDisconnect")
                              THEN "disconnect" ELSE "none"]
    /\ calls < MaxCalls
    /\ calls' = calls + 1
    /\ UNCHANGED <<ctlVars, doc, store, pending, reqs, pubCount, ctorState, ctorPc,
                   opVars, bgVars, hPc>>

\* Offline.getDoc resolves for the connect handler's syncOfflineCache
BgGetDocResolved ==
    /\ bgPc = "getDoc"
    /\ bgPc' = IF store.present THEN "load" ELSE "idle"
    /\ bgData' = IF store.present THEN store ELSE NoData
    /\ ev' = Ev("await", FALSE, NoDoc, FALSE, NoDoc)
    /\ UNCHANGED <<ctlVars, doc, store, pending, reqs, pubCount, ctorState, calls, ctorPc,
                   opVars, hPc>>

\* Offline.getOrCreateActor resolves for it: the snapshot becomes current
BgLoadResolved ==
    /\ bgPc = "load"
    /\ bgPc' = "idle"
    /\ bgData' = NoData
    /\ doc' = SyncResult(bgData, doc)
    /\ ev' = Ev("sync", FALSE, NoDoc, SendEmits(socket, roomId), NoDoc)
    /\ UNCHANGED <<ctlVars, store, pending, reqs, pubCount, ctorState, calls, ctorPc,
                   opVars, hPc>>

\* ------------------------------------------------------------ specification
ServerStates == {Bytes({ServerChange}), Corrupt}

Next ==
    \/ \E who \in {"ctor", "op", "handler"} : ReadActorIdResolved(who)
    \/ Publish
    \/ SaveTimerFires
    \/ RestoreCall
    \/ InitCall
    \/ AuthFails
    \/ \E srv \in ServerStates : AuthSucceeds(srv)
    \/ OpGetDocResolved
    \/ OpLoadResolved
    \/ Disconnect
    \/ OnUpdateDoc
    \/ OnConnect
    \/ OnDisconnect
    \/ \E s \in 1..MaxCalls : \E pkt \in Packets : UpdateEvent(s, pkt)
    \/ \E s \in 1..MaxCalls : ConnectEvent(s)
    \/ \E s \in 1..MaxCalls : \E name \in {"disconnect", "error"} : TransportEvent(s, name)
    \/ BgGetDocResolved
    \/ BgLoadResolved

Spec == Init /\ [][Next]_vars

\* The document is deleted out of band (_doc becomes undefined again): the
\* situation the recreation in publishDoc, lines 330-338, is written for.
InvalidateDoc ==
    /\ doc # NoDoc
    /\ calls < MaxCalls
    /\ calls' = calls + 1
    /\ doc' = NoDoc
    /\ ev' = Ev("invalidate", FALSE, NoDoc, FALSE, NoDoc)
    /\ UNCHANGED <<ctlVars, store, pending, reqs, pubCount, ctorState, ctorPc, opVars,
                   bgVars, hPc>>

NextInvalidated == Next \/ InvalidateDoc

SpecInvalidated == Init /\ [][NextInvalidated]_vars

\* ================================================================= claims
\* The document syncOfflineCache yields when Offline.getDoc resolves to
\* `data` while `cur` is current: the snapshot under the cached actor, or cur.
Synced(data, cur) ==
    IF data.present THEN [actor |-> Actor, changes |-> data.changes] ELSE cur

\* The bytes the caller's syncOfflineCache works on in the step that returns
OpBytes == IF opPc = "load" THEN opData ELSE store

\* C1: when authorization fails, init() does not throw, runs the
\* offline-cache sync and returns the current document; no step of that
\* init() after the failure opens a session, records a room identity or
\* attaches a handler.
C1_InitFailureStaysOffline ==
    [][/\ ((opKind = "initFail" \/ opKind' = "initFail")
            /\ <<opKind, opPc>>' # <<opKind, opPc>>)
           => /\ socket' = socket
              /\ roomId' = roomId
              /\ sessions' = sessions
              /\ nSessions' = nSessions
       /\ (opKind = "init" /\ opPc = "auth" /\ opKind' = "none")
           => ev'.op = "init" /\ ~ev'.threw
       /\ ev'.op = "initFail"
           => /\ ~ev'.threw
              /\ doc' = Synced(OpBytes, doc)
              /\ ev'.out = doc'
      ]_vars

\* C1 witness: a failed init() has returned the snapshot it restored, offline
C1_Witness ==
    /\ ev.op = "initFail"
    /\ ev.out = doc
    /\ OldChange \in doc.changes
    /\ socket = 0
    /\ roomId = NoRoom
    /\ nSessions = 0

\* C2: when authorization succeeds and deserialize/merge do not fail, init()
\* adopts merge(L, S), S the deserialized server state and L the result of
\* the offline-cache sync, announces it (emitted when a session is held) and
\* returns that same document.
C2_InitAdoptsMerge ==
    [][(opKind = "init" /\ opKind' = "none" /\ opState # NoDoc
            /\ Synced(OpBytes, doc) # NoDoc)
       => /\ doc' = [actor |-> Synced(OpBytes, doc).actor,
                     changes |-> Synced(OpBytes, doc).changes \cup opState.changes]
          /\ ev'.op = "init"
          /\ ~ev'.threw
          /\ ev'.out = doc'
          /\ ev'.emitted = (socket # 0)
      ]_vars

\* C2 witness: init() has returned the snapshot merged with the server state
C2_Witness ==
    /\ ev.op = "init"
    /\ ev.out = doc
    /\ doc.actor = Actor
    /\ {OldChange, ServerChange} \subseteq doc.changes
    /\ socket # 0

\* C3: after publishDoc calls made while no session existed, a successful
\* init() returns, and leaves current, a document that contains every one of
\* those publishes.
C3_OfflinePublishesSurviveInit ==
    (ev.op = "init" /\ ev.out # PlainEmpty /\ nSessions = 1)
    => \A n \in 1..opPubs :
          PubChange(n) \in ev.out.changes /\ PubChange(n) \in doc.changes

\* C4: an inbound message for another room changes neither the current
\* document nor the pending save, does not reach the user's callback, and the
\* handler returns without error.
C4_WrongRoomDiscarded ==
    [][(ev'.op = "update" /\ calls' = calls + 1 /\ ev'.arg.roomId # roomId)
       => /\ ~ev'.threw
          /\ doc' = doc
          /\ pending' = pending
          /\ store' = store
          /\ ev'.cb = NoDoc
      ]_vars

\* C4 witness: a well-formed message for another room was discarded
C4_Witness ==
    /\ ev.op = "update"
    /\ ev.arg.msg = "ok"
    /\ ev.arg.roomId # roomId
    /\ roomId # NoRoom
    /\ doc # NoDoc
    /\ ~ev.threw
    /\ ev.cb = NoDoc

\* C5: an inbound message for this room without a msg payload makes the
\* handler throw with the document, the pending save and the user's callback
\* untouched.
C5_MissingPayloadThrows ==
    [][(ev'.op = "update" /\ calls' = calls + 1 /\ ev'.arg.roomId = roomId
            /\ ev'.arg.msg = "none")
       => /\ ev'.threw
          /\ doc' = doc
          /\ pending' = pending
          /\ ev'.cb = NoDoc
      ]_vars

\* C5 witness: the handler threw on a message for this room without payload
C5_Witness ==
    /\ ev.op = "update"
    /\ ev.arg.msg = "none"
    /\ ev.arg.roomId = roomId
    /\ doc # NoDoc
    /\ ev.threw

\* C6: when the Peer rejects an inbound message the handler throws, and the
\* result is neither adopted, nor scheduled for saving, nor stored, nor handed
\* to the user's callback.
C6_RejectedMessageNotApplied ==
    [][(ev'.op = "update" /\ ev'.arg.roomId = roomId /\ ev'.arg.msg = "corrupt")
       => /\ ev'.threw
          /\ doc' = doc
          /\ pending' = pending
          /\ store' = store
          /\ ev'.cb = NoDoc
      ]_vars

\* C6 witness: the handler threw on a rejected message for this room
C6_Witness ==
    /\ ev.op = "update"
    /\ ev.arg.msg = "corrupt"
    /\ ev.arg.roomId = roomId
    /\ doc # NoDoc
    /\ ev.threw
    /\ ev.cb = NoDoc

\* C7: the second call of onUpdateDoc throws: at most one call is accepted.
C7_SecondRegistrationThrows == nRegs <= 1

\* C8: restore() that finds no snapshot does not throw and returns the
\* in-memory document, which stays current unchanged; the document is
\* created from the default state beforehand only if there was none.
C8_RestoreWithoutSnapshot ==
    [][/\ (opKind = "restore" /\ opKind' = "none" /\ ~OpBytes.present)
           => /\ ev'.op = "restore"
              /\ ~ev'.threw
              /\ doc # NoDoc
              /\ ev'.out = doc
              /\ doc' = doc
       /\ (opKind = "restore" /\ opPc = "actor" /\ opPc' # "actor")
           => doc' = IF doc = NoDoc THEN [actor |-> Actor, changes |-> {}] ELSE doc
      ]_vars

\* C8 witness: restore() returned the constructor's document, the store empty
C8_Witness ==
    /\ ev.op = "restore"
    /\ ~store.present
    /\ ev.out = doc
    /\ InitChange \in doc.changes

\* C9: a publishDoc that does not throw has made the document it returns
\* current and handed it to the debounced save, and its message is emitted
\* to the transport exactly when a session is held.
C9_PublishAdoptsSavesAnnounces ==
    [][(ev'.op = "publish" /\ calls' = calls + 1 /\ ~ev'.threw)
       => /\ ev'.out # NoDoc
          /\ doc' = ev'.out
          /\ pending' = ev'.out
          /\ ev'.emitted = (socket # 0)
      ]_vars

\* C9 witness: a publish before any init(): adopted, scheduled, not emitted
C9_Witness ==
    /\ ev.op = "publish"
    /\ ~ev.threw
    /\ PubChange(1) \in ev.out.changes
    /\ doc = ev.out
    /\ pending = ev.out
    /\ nSessions = 0
    /\ ~ev.emitted

\* C10: when change() yields nothing (there is no document), publishDoc
\* recreates an empty document under the cached actor id if that id is
\* resolved, and otherwise throws leaving document and pending save alone.
C10_PublishOnMissingDocument ==
    [][(ev'.op = "publish" /\ calls' = calls + 1 /\ doc = NoDoc)
       => IF actorId # NoActor
          THEN /\ ~ev'.threw
               /\ doc' = [actor |-> actorId, changes |-> {}]
               /\ ev'.out = doc'
          ELSE /\ ev'.threw
               /\ doc' = doc
               /\ pending' = pending
      ]_vars

\* C10 witness: the constructor's document was deleted and publishDoc
\* returned a recreated empty one
C10_Witness ==
    /\ ev.op = "publish"
    /\ ~ev.threw
    /\ ctorState
    /\ ctorPc = "done"
    /\ ev.out = [actor |-> Actor, changes |-> {}]
    /\ doc = ev.out

\* C11: save requests that arrive while a save is pending coalesce: a request
\* only replaces the pending document (last request wins) and writes nothing;
\* the store is written by the timer alone, with the pending document, and
\* that write empties the slot, so one window yields one write.
C11_DebounceCoalesces ==
    [][/\ (ev'.op = "publish" /\ calls' = calls + 1 /\ ~ev'.threw)
           => pending' = ev'.out /\ store' = store
       /\ (ev'.op = "update" /\ ev'.cb # NoDoc)
           => pending' = doc' /\ store' = store
       /\ store' # store
           => /\ ev'.op = "save"
              /\ pending # NoDoc
              /\ store' = [present |-> TRUE, ok |-> TRUE, changes |-> pending.changes]
              /\ pending' = NoDoc
       /\ pending' # pending
           => \/ ev'.op = "save"
              \/ ev'.op = "publish" /\ ~ev'.threw
              \/ ev'.op = "update" /\ ev'.cb # NoDoc
      ]_vars

\* C11 witness: two publishes fell into one window and the single write that
\* followed holds the document of the second
C11_Witness ==
    /\ ev.op = "save"
    /\ reqs = 2
    /\ pubCount = 2
    /\ calls = 2
    /\ pending = NoDoc
    /\ store.present
    /\ store.changes = doc.changes
    /\ {PubChange(1), PubChange(2)} \subseteq store.changes

\* C12: when deserializing the server state or merging it with the offline
\* document fails during init() after a successful authorization, init()
\* does not throw, returns the empty document, and the current document is
\* reset to an empty one too.
C12_InitMergeFailureResets ==
    (ev.op = "init" /\ ev.out = PlainEmpty)
        => /\ ~ev.threw
           /\ doc # NoDoc
           /\ doc.changes = {}

\* C13: disconnect() tears down the session it holds, if any, and clears the
\* reference; it leaves the room identity, the three pending callback slots,
\* the actor identity, the current document, the pending save and the store
\* as they were, touches no other session, and with no session held it
\* changes nothing at all.
C13_DisconnectFrame ==
    [][(ev'.op = "disconnect" /\ calls' = calls + 1)
        => /\ socket' = 0
           /\ \A s \in DOMAIN sessions :
                 /\ sessions'[s].handlers = sessions[s].handlers
                 /\ sessions'[s].open = (sessions[s].open /\ s # socket)
           /\ UNCHANGED <<roomId, cbUpdate, cbConnect, cbDisconnect, actorId,
                          doc, pending, store, nSessions>>
           /\ socket = 0 => UNCHANGED sessions
      ]_vars

C13_Witness ==
    /\ ev.op = "disconnect"
    /\ socket = 0
    /\ nSessions = 1
    /\ ~sessions[1].open
    /\ sessions[1].handlers = InitHandlers
    /\ cbUpdate
    /\ roomId = ServerRoom
    /\ doc # NoDoc

\* C14: an inbound message addressed to the controller's room, carrying a
\* payload the relay accepts, is handled in one uninterrupted step that
\* adopts the relay's result as the current document, schedules the debounced
\* save of that document and hands that same document to the user's update
\* callback, once; the update callback runs for no other inbound message and
\* in no other step.
C14_AcceptedMessageApplied ==
    [][/\ (/\ ev'.op = "update" /\ calls' = calls + 1
           /\ roomId # NoRoom /\ ev'.arg.roomId = roomId /\ ev'.arg.msg = "ok")
          => /\ ~ev'.threw
             /\ doc' = [doc EXCEPT !.changes = @ \cup {RemoteChange}]
             /\ pending' = doc'
             /\ ev'.cb = doc'
             /\ ev'.user = "update"
       /\ (ev'.user = "update" /\ ev' # ev)
          => /\ ev'.op = "update"
             /\ ev'.arg.roomId = roomId'
             /\ ev'.arg.msg = "ok"
             /\ ev'.cb = doc'
      ]_vars

C14_Witness ==
    /\ ev.op = "update"
    /\ ev.arg = [roomId |-> ServerRoom, msg |-> "ok"]
    /\ ev.user = "update"
    /\ ev.cb = doc
    /\ pending = doc
    /\ RemoteChange \in doc.changes
    /\ InitChange \in doc.changes

\* The handlers a session created now must carry: the controller's own three,
\* then the pending callbacks in the order update, connect, disconnect.
C15_Expected ==
    SelectSeq(<<"error", "connect", "disconnect",
                "update", "userConnect", "userDisconnect">>,
              LAMBDA h : \/ h \in {"error", "connect", "disconnect"}
                         \/ h = "update" /\ cbUpdate
                         \/ h = "userConnect" /\ cbConnect
                         \/ h = "userDisconnect" /\ cbDisconnect)

\* C15: a callback registered while no session is held is stored in its slot
\* and attached to nothing; no user callback is invoked while no session has
\* ever been created; the step of a successful init() that creates the
\* session attaches to it the controller's error, connect and disconnect
\* handlers and then the stored callbacks in the order update, connect,
\* disconnect, and the slots stay set.
C15_PendingCallbacksAttachedAtInit ==
    [][/\ (/\ ev'.op \in {"onUpdateDoc", "onConnect", "onDisconnect"}
           /\ calls' = calls + 1 /\ ~ev'.threw /\ socket = 0)
          => /\ sessions' = sessions
             /\ socket' = 0
             /\ ev'.user = "none"
             /\ ev'.op = "onUpdateDoc" => cbUpdate'
             /\ ev'.op = "onConnect" => cbConnect'
             /\ ev'.op = "onDisconnect" => cbDisconnect'
       /\ (nSessions' = 0) => (ev'.user = "none" /\ sessions' = sessions)
       /\ (nSessions' # nSessions)
          => /\ opKind = "init"
             /\ nSessions' = nSessions + 1
             /\ socket' = nSessions'
             /\ sessions' = [sessions EXCEPT ![nSessions'] =
                                [open |-> TRUE, handlers |-> C15_Expected]]
             /\ UNCHANGED <<cbUpdate, cbConnect, cbDisconnect>>
      ]_vars

C15_Witness ==
    /\ nSessions = 1 /\ socket = 1
    /\ cbUpdate /\ cbDisconnect /\ ~cbConnect
    /\ sessions[1].open
    /\ sessions[1].handlers =
         <<"error", "connect", "disconnect", "update", "userDisconnect">>
    /\ ev.op = "init"

\* C16: when the controller is constructed with an initial state, the step
\* that creates its first document builds it from that state, whichever of
\* the pending actor-identity resolutions (the constructor's, restore()'s,
\* init()'s or an update handler's) completes first.
C16_FirstDocumentFromInitialState ==
    [][(ctorState /\ doc = NoDoc /\ doc' # NoDoc)
        => InitChange \in doc'.changes]_vars

\* C17: no step of a transport "connect" event, neither the handler itself
\* nor the offline-cache sync it starts, removes from the current document a
\* change it held before that step.
C17_ConnectKeepsChanges ==
    [][(ev'.op = "connect" \/ bgPc' # bgPc)
        => doc.changes \subseteq doc'.changes]_vars

\* The user callback `name` has been registered: it sits in its pending slot
\* or on some session, open or closed.
C18_Registered(name) ==
    \/ name = "update" /\ cbUpdate
    \/ name = "userConnect" /\ cbConnect
    \/ name = "userDisconnect" /\ cbDisconnect
    \/ \E s \in 1..nSessions :
         \E k \in 1..Len(sessions[s].handlers) : sessions[s].handlers[k] = name

\* C18: once every earlier session has been torn down by disconnect() and a
\* successful init() has made a new session the live one, every registered
\* user callback is attached to that session, whether it was registered
\* with or without a session held.
C18_CallbacksFollowReconnect ==
    \A name \in {"update", "userConnect", "userDisconnect"} :
        (/\ C18_Registered(name)
         /\ socket # 0
         /\ \A s \in 1..nSessions : s # socket => ~sessions[s].open)
        => Attached(socket, name)

\* C19: at most one session the controller opened is open at any time: a
\* session that is open is the one the controller references, so init()
\* never leaves an earlier session open.
C19_SingleOpenSession ==
    \A s \in 1..nSessions : sessions[s].open => s = socket

\* C20: whenever the controller holds a session, or any session carries a
\* handler, the room identity is set; so the outbound path never meets a
\* session without a room identity, and an inbound update that throws does
\* so with the room identity set, never because it is missing.
C20_SessionImpliesRoom ==
    /\ socket # 0 => roomId # NoRoom
    /\ nSessions > 0 => roomId # NoRoom
    /\ ~SendThrows(socket, roomId)
    /\ (ev.op = "update" /\ ev.threw) => roomId # NoRoom
    /\ (ev.op = "publish" /\ ev.threw) => (socket = 0 /\ doc = NoDoc)

C20_Witness ==
    /\ socket # 0
    /\ roomId = ServerRoom
    /\ ev.op = "update"
    /\ ev.arg.roomId = roomId
    /\ ~ev.threw
    /\ ev.emitted
    /\ pubCount > 0
====
